---------------------------- MODULE Spec2Model ----------------------------
(***************************************************************************)
(* Hire-to-settlement workflow of src/fleet_app.py: the SQLite tables the  *)
(* handlers read and write, and one action per console handler.            *)
(*                                                                         *)
(* Spec         one operator at one console, from an empty fleet.db: every *)
(*              handler runs to its end before the next one starts (each   *)
(*              db.execute commits).  Master records and hires.            *)
(* SpecInvoice  the same console over a fleet.db that holds the master     *)
(*              records: hires, their status, customer invoices.           *)
(* SpecSettle   the same console: hires of owned and rented-in fleets,     *)
(*              with and without a supplier on file, supplier payments.    *)
(* SpecAmounts  the same console: a hire's amounts through invoicing and   *)
(*              supplier payment.                                          *)
(* SpecConc     several consoles on the same fleet.db: create_invoice_-    *)
(*              from_hire and update_hire_status advance one SQL statement *)
(*              at a time and interleave.                                  *)
(*                                                                         *)
(* Free-text columns no handler branches on (names, phone numbers, dates,  *)
(* serial numbers, notes) are left out of the rows.  Rates and amounts are *)
(* integer-valued.  An uncaught sqlite3.IntegrityError ends the process    *)
(* with the database as it was before the statement; the console shows the *)
(* traceback (out = IntegrityError) and the operator starts the program    *)
(* again.                                                                  *)
(***************************************************************************)
EXTENDS Integers, Sequences, FiniteSets, TLC

(* ------------------------------ bounds -------------------------------- *)
MaxDrivers == 1
MaxCustomers == 2
MaxSuppliers == 1
MaxHires == 1
MaxInvoices == 3
MaxPayments == 1

(* ------------------------------ inputs -------------------------------- *)
Sessions == {"A", "B"}
MainSession == "A"
FleetIDs == {"F1"}
OwnershipInputs == {"Owned", "Rented-in"}
HireTypeInputs == {"Daily", "Hourly"}
HireStatusInputs == {"Completed", "Cancelled", "Closed"}
InvoiceStatusInputs == {"Unpaid", "Paid"}
PaymentStatusInputs == {"Pending", "Paid"}
Rates == {0, 2}
Quantities == {0, 1, 3}
Amounts == {500}
\* what the operator types where the code calls int() on the raw text
DriverTyped == {"1"}
CustomerTyped == {"1", "2"}
SupplierTyped == {"", "0", "1", "2", "x"}
HireIdInputs == 0..MaxHires
InvoiceIdInputs == 0..MaxInvoices
PaymentIdInputs == 0..MaxPayments

(* --------------------------- values and rows -------------------------- *)
\* Optional[int]: None is the empty tuple, a value v is <<v>>
None == <<>>
Some(v) == <<v>>

\* int(text): the numerals it accepts; any other text raises ValueError
IntOf == [t \in {"0", "1", "2", "3"} |-> CASE t = "0" -> 0 [] t = "1" -> 1
                                           [] t = "2" -> 2 [] t = "3" -> 3]
IsInt(t) == t \in DOMAIN IntOf

Absent == "<no row>"
OwnershipCheck == {"Owned", "Rented-in"}
HireTypeCheck == {"Daily", "Weekly", "Monthly", "Trip"}

\* console lines
Blank == ""
IntegrityError == "sqlite3.IntegrityError"

VARIABLES tblFleet, tblDriver, tblSupplier, tblCustomer, tblHire,
          tblCustomerInvoice, tblSupplierPayment, out, sess

tables == <<tblFleet, tblDriver, tblSupplier, tblCustomer, tblHire,
            tblCustomerInvoice, tblSupplierPayment>>
vars == <<tblFleet, tblDriver, tblSupplier, tblCustomer, tblHire,
          tblCustomerInvoice, tblSupplierPayment, out, sess>>

\* an INTEGER PRIMARY KEY AUTOINCREMENT table without its text columns:
\* the ids present and the largest id ever given (sqlite_sequence)
EmptyTable == [seq |-> 0, rows |-> {}]
InsertRow(t) == [seq |-> t.seq + 1, rows |-> t.rows \cup {t.seq + 1}]

\* a console between two handlers, and the locals of a handler under way
Idle == [pc |-> "idle", hire_id |-> 0, selected |-> None, invoice_no |-> <<>>]

Init ==
    /\ tblFleet = [f \in FleetIDs |-> Absent]
    /\ tblDriver = EmptyTable
    /\ tblSupplier = EmptyTable
    /\ tblCustomer = EmptyTable
    /\ tblHire = <<>>
    /\ tblCustomerInvoice = <<>>
    /\ tblSupplierPayment = <<>>
    /\ out = [s \in Sessions |-> Blank]
    /\ sess = [s \in Sessions |-> Idle]

Say(s, msg) == out' = [out EXCEPT ![s] = msg]

(* --------------------------- helper utilities ------------------------- *)
record_exists(rows, value) == value \in rows

\* choose_from_table: <<result, printed line>>
choose_from_table(t, text) ==
    IF t.rows = {} THEN <<None, "No records found.">>
    ELSE IF ~IsInt(text) THEN <<None, "Invalid choice.">>
    ELSE IF ~record_exists(t.rows, IntOf[text]) THEN <<None, "ID does not exist.">>
    ELSE <<Some(IntOf[text]), Blank>>

(* ---------------------------- reference store ------------------------- *)
add_fleet(s, fleet_id, ownership) ==
    /\ UNCHANGED <<tblDriver, tblSupplier, tblCustomer, tblHire,
                   tblCustomerInvoice, tblSupplierPayment, sess>>
    /\ IF tblFleet[fleet_id] # Absent
       THEN /\ Say(s, "Fleet ID already exists.")
            /\ UNCHANGED tblFleet
       ELSE IF ownership \notin OwnershipCheck
       THEN /\ Say(s, IntegrityError)
            /\ UNCHANGED tblFleet
       ELSE /\ tblFleet' = [tblFleet EXCEPT ![fleet_id] = ownership]
            /\ Say(s, "Fleet added successfully.")

update_fleet(s, fleet_id, ownership) ==
    /\ UNCHANGED <<tblDriver, tblSupplier, tblCustomer, tblHire,
                   tblCustomerInvoice, tblSupplierPayment, sess>>
    /\ IF tblFleet[fleet_id] = Absent
       THEN /\ Say(s, "Fleet not found.")
            /\ UNCHANGED tblFleet
       ELSE IF ownership \notin OwnershipCheck
       THEN /\ Say(s, IntegrityError)
            /\ UNCHANGED tblFleet
       ELSE /\ tblFleet' = [tblFleet EXCEPT ![fleet_id] = ownership]
            /\ Say(s, "Fleet updated.")

add_driver(s) ==
    /\ tblDriver.seq < MaxDrivers
    /\ tblDriver' = InsertRow(tblDriver)
    /\ Say(s, "Driver added.")
    /\ UNCHANGED <<tblFleet, tblSupplier, tblCustomer, tblHire,
                   tblCustomerInvoice, tblSupplierPayment, sess>>

add_customer(s) ==
    /\ tblCustomer.seq < MaxCustomers
    /\ tblCustomer' = InsertRow(tblCustomer)
    /\ Say(s, "Customer added.")
    /\ UNCHANGED <<tblFleet, tblDriver, tblSupplier, tblHire,
                   tblCustomerInvoice, tblSupplierPayment, sess>>

add_supplier(s) ==
    /\ tblSupplier.seq < MaxSuppliers
    /\ tblSupplier' = InsertRow(tblSupplier)
    /\ Say(s, "Supplier added.")
    /\ UNCHANGED <<tblFleet, tblDriver, tblCustomer, tblHire,
                   tblCustomerInvoice, tblSupplierPayment, sess>>

(* ------------------------------ hire module --------------------------- *)
\* "Rented in" for "Rented-in": require_supplier is never true
hire_supplier_never_required(ownership, supplier_text) ==
    IF ownership = "Rented in"
    THEN LET c == choose_from_table(tblSupplier, supplier_text)
         IN  IF c[1] = None THEN <<FALSE, None, c[2]>>
             ELSE <<TRUE, c[1], Blank>>
    ELSE IF supplier_text = "" THEN <<TRUE, None, Blank>>
    ELSE IF ~IsInt(supplier_text) THEN <<FALSE, None, "Invalid supplier ID.">>
    ELSE <<TRUE, Some(IntOf[supplier_text]), Blank>>

\* lines 504-518: the supplier of a new hire, <<proceed, supplier_id, line>>
hire_supplier(ownership, supplier_text) ==
    IF ownership = "Rented-in"
    THEN LET c == choose_from_table(tblSupplier, supplier_text)
         IN  IF c[1] = None THEN <<FALSE, None, c[2]>>
             ELSE <<TRUE, c[1], Blank>>
    ELSE IF supplier_text = "" THEN <<TRUE, None, Blank>>
    ELSE IF ~IsInt(supplier_text) THEN <<FALSE, None, "Invalid supplier ID.">>
    ELSE <<TRUE, Some(IntOf[supplier_text]), Blank>>

\* "+" for "*"
hire_total_sum(rate, quantity) == rate + quantity

hire_total(rate, quantity) == rate * quantity

NewHire(fleet_id, driver_id, customer_id, supplier_id, hire_type, rate, quantity) ==
    [FleetID |-> fleet_id, DriverID |-> driver_id, CustomerID |-> customer_id,
     SupplierID |-> supplier_id, HireType |-> hire_type, Rate |-> rate,
     Quantity |-> quantity, TotalAmount |-> hire_total(rate, quantity),
     Status |-> "Open"]

add_hire(s, fleet_id, driver_text, customer_text, supplier_text, hire_type, rate, quantity) ==
    LET driver == choose_from_table(tblDriver, driver_text)
        customer == choose_from_table(tblCustomer, customer_text)
        supplier == hire_supplier(tblFleet[fleet_id], supplier_text)
    IN
    /\ UNCHANGED <<tblFleet, tblDriver, tblSupplier, tblCustomer,
                   tblCustomerInvoice, tblSupplierPayment, sess>>
    /\ IF tblFleet[fleet_id] = Absent
       THEN /\ Say(s, "Fleet not found.")
            /\ UNCHANGED tblHire
       ELSE IF driver[1] = None
       THEN /\ Say(s, driver[2])
            /\ UNCHANGED tblHire
       ELSE IF customer[1] = None
       THEN /\ Say(s, customer[2])
            /\ UNCHANGED tblHire
       ELSE IF ~supplier[1]
       THEN /\ Say(s, supplier[3])
            /\ UNCHANGED tblHire
       ELSE IF hire_type \notin HireTypeCheck
       THEN /\ Say(s, IntegrityError)
            /\ UNCHANGED tblHire
       ELSE /\ Len(tblHire) < MaxHires
            /\ tblHire' = Append(tblHire,
                   NewHire(fleet_id, driver[1][1], customer[1][1], supplier[2],
                           hire_type, rate, quantity))
            /\ Say(s, "Hire created with total amount")

\* line 543: UPDATE tblHire SET Status=? WHERE HireID=?
SetHireStatus(hires, hire_id, status) ==
    [i \in DOMAIN hires |->
        IF i = hire_id THEN [hires[i] EXCEPT !.Status = status] ELSE hires[i]]

update_hire_status(s, hire_id, status) ==
    /\ UNCHANGED <<tblFleet, tblDriver, tblSupplier, tblCustomer,
                   tblCustomerInvoice, tblSupplierPayment, sess>>
    /\ IF ~record_exists(DOMAIN tblHire, hire_id)
       THEN /\ Say(s, "Hire not found.")
            /\ UNCHANGED tblHire
       ELSE /\ tblHire' = SetHireStatus(tblHire, hire_id, status)
            /\ Say(s, "Hire status updated.")

(* ----------------------------- invoice module ------------------------- *)
\* a str is the tuple of its characters
DigitChars == <<"0", "1", "2", "3", "4", "5", "6", "7", "8", "9">>
IsDigit(c) == \E d \in 1..10 : DigitChars[d] = c
DigitVal(c) == (CHOOSE d \in 1..10 : DigitChars[d] = c) - 1
InvPrefix == <<"I", "N", "V", "-">>

\* last.split("-")[-1]: what follows the last "-" (all of it when there is none)
RECURSIVE LastField(_)
LastField(str) ==
    IF str = <<>> THEN <<>>
    ELSE IF str[Len(str)] = "-" THEN <<>>
    ELSE Append(LastField(SubSeq(str, 1, Len(str) - 1)), str[Len(str)])

\* int(text) on a run of decimal digits; ValueError on anything else
IsNumeral(str) == str # <<>> /\ \A i \in 1..Len(str) : IsDigit(str[i])
RECURSIVE NumeralValue(_)
NumeralValue(str) ==
    IF str = <<>> THEN 0
    ELSE 10 * NumeralValue(SubSeq(str, 1, Len(str) - 1)) + DigitVal(str[Len(str)])

\* f"{number:04d}" for number >= 0
RECURSIVE Decimal(_)
Decimal(n) ==
    IF n < 10 THEN <<DigitChars[n + 1]>>
    ELSE Append(Decimal(n \div 10), DigitChars[(n % 10) + 1])
RECURSIVE ZeroPad(_, _)
ZeroPad(str, width) == IF Len(str) >= width THEN str ELSE ZeroPad(<<"0">> \o str, width)
Format04d(number) == ZeroPad(Decimal(number), 4)

\* f"INV-{number}": the padding forgotten
generate_invoice_no_unpadded(invoices) ==
    IF invoices = <<>> THEN InvPrefix \o <<"0", "0", "0", "1">>
    ELSE LET last == invoices[Len(invoices)].InvoiceNo
             field == LastField(last)
             number == IF IsNumeral(field) THEN NumeralValue(field) + 1 ELSE 1
         IN  InvPrefix \o Decimal(number)

generate_invoice_no(invoices) ==
    IF invoices = <<>> THEN InvPrefix \o <<"0", "0", "0", "1">>
    ELSE LET last == invoices[Len(invoices)].InvoiceNo
             field == LastField(last)
             number == IF IsNumeral(field) THEN NumeralValue(field) + 1 ELSE 1
         IN  InvPrefix \o Format04d(number)

\* the SELECT without its WHERE
SelectCompleted_every_hire(hires) ==
    {[HireID |-> i, CustomerID |-> hires[i].CustomerID,
      TotalAmount |-> hires[i].TotalAmount] : i \in DOMAIN hires}

\* line 608: SELECT HireID, CustomerID, TotalAmount FROM tblHire WHERE Status='Completed'
SelectCompleted(hires) ==
    {[HireID |-> i, CustomerID |-> hires[i].CustomerID,
      TotalAmount |-> hires[i].TotalAmount] :
        i \in {j \in DOMAIN hires : hires[j].Status = "Completed"}}

\* line 615: next((h for h in hires if h["HireID"] == hire_id), None)
SelectedHire(hires, hire_id) ==
    IF \E h \in hires : h.HireID = hire_id
    THEN Some(CHOOSE h \in hires : h.HireID = hire_id)
    ELSE None

\* the hire id bound to the CustomerID column
NewInvoice_customer_is_hire(invoice_no, hire_id, selected) ==
    [InvoiceNo |-> invoice_no, HireID |-> hire_id,
     CustomerID |-> hire_id, Amount |-> selected.TotalAmount,
     PaymentStatus |-> "Unpaid"]

NewInvoice(invoice_no, hire_id, selected) ==
    [InvoiceNo |-> invoice_no, HireID |-> hire_id,
     CustomerID |-> selected.CustomerID, Amount |-> selected.TotalAmount,
     PaymentStatus |-> "Unpaid"]

\* the column declared without UNIQUE
InvoiceNoUnique_not_declared(invoices, invoice_no) == TRUE

\* InvoiceNo TEXT UNIQUE NOT NULL: whether the INSERT is accepted
InvoiceNoUnique(invoices, invoice_no) ==
    \A i \in DOMAIN invoices : invoices[i].InvoiceNo # invoice_no

create_invoice_from_hire(s, hire_id) ==
    LET hires == SelectCompleted(tblHire)
        selected == SelectedHire(hires, hire_id)
        invoice_no == generate_invoice_no(tblCustomerInvoice)
    IN
    /\ UNCHANGED <<tblFleet, tblDriver, tblSupplier, tblCustomer, tblHire,
                   tblSupplierPayment, sess>>
    /\ IF hires = {}
       THEN /\ Say(s, "No completed hires available.")
            /\ UNCHANGED tblCustomerInvoice
       ELSE IF selected = None
       THEN /\ Say(s, "Invalid Hire ID.")
            /\ UNCHANGED tblCustomerInvoice
       ELSE IF ~InvoiceNoUnique(tblCustomerInvoice, invoice_no)
       THEN /\ Say(s, IntegrityError)
            /\ UNCHANGED tblCustomerInvoice
       ELSE /\ Len(tblCustomerInvoice) < MaxInvoices
            /\ tblCustomerInvoice' = Append(tblCustomerInvoice,
                   NewInvoice(invoice_no, hire_id, selected[1]))
            /\ Say(s, "Invoice created with number")

\* line 635: UPDATE tblCustomerInvoice SET PaymentStatus=? WHERE InvoiceID=?
SetInvoiceStatus(invoices, invoice_id, status) ==
    [i \in DOMAIN invoices |->
        IF i = invoice_id THEN [invoices[i] EXCEPT !.PaymentStatus = status]
        ELSE invoices[i]]

update_invoice_status(s, invoice_id, status) ==
    /\ UNCHANGED <<tblFleet, tblDriver, tblSupplier, tblCustomer, tblHire,
                   tblSupplierPayment, sess>>
    /\ IF ~record_exists(DOMAIN tblCustomerInvoice, invoice_id)
       THEN /\ Say(s, "Invoice not found.")
            /\ UNCHANGED tblCustomerInvoice
       ELSE /\ tblCustomerInvoice' = SetInvoiceStatus(tblCustomerInvoice, invoice_id, status)
            /\ Say(s, "Invoice status updated.")

(* ------------------------ supplier payments module -------------------- *)
\* the test of line 698 left out
Falsy_never(supplier_id) == FALSE

\* line 698: "if not supplier_id" is true of NULL and of 0
Falsy(supplier_id) == supplier_id = None \/ supplier_id = Some(0)

\* the two ids bound in the other order
NewPayment_ids_swapped(supplier_id, hire_id, amount) ==
    [SupplierID |-> Some(hire_id), HireID |-> supplier_id[1], Amount |-> amount,
     PaymentStatus |-> "Pending"]

NewPayment(supplier_id, hire_id, amount) ==
    [SupplierID |-> supplier_id, HireID |-> hire_id, Amount |-> amount,
     PaymentStatus |-> "Pending"]

add_supplier_payment(s, hire_id, amount) ==
    /\ UNCHANGED <<tblFleet, tblDriver, tblSupplier, tblCustomer, tblHire,
                   tblCustomerInvoice, sess>>
    /\ IF hire_id \notin DOMAIN tblHire
       THEN /\ Say(s, "Hire not found.")
            /\ UNCHANGED tblSupplierPayment
       ELSE IF Falsy(tblHire[hire_id].SupplierID)
       THEN /\ Say(s, "This hire has no supplier.")
            /\ UNCHANGED tblSupplierPayment
       ELSE /\ Len(tblSupplierPayment) < MaxPayments
            /\ tblSupplierPayment' = Append(tblSupplierPayment,
                   NewPayment(tblHire[hire_id].SupplierID, hire_id, amount))
            /\ Say(s, "Supplier payment recorded.")

\* line 717: UPDATE tblSupplierPayment SET PaymentStatus=? WHERE PaymentID=?
SetPaymentStatus(payments, payment_id, status) ==
    [i \in DOMAIN payments |->
        IF i = payment_id THEN [payments[i] EXCEPT !.PaymentStatus = status]
        ELSE payments[i]]

update_supplier_payment_status(s, payment_id, status) ==
    /\ UNCHANGED <<tblFleet, tblDriver, tblSupplier, tblCustomer, tblHire,
                   tblCustomerInvoice, sess>>
    /\ IF ~record_exists(DOMAIN tblSupplierPayment, payment_id)
       THEN /\ Say(s, "Payment not found.")
            /\ UNCHANGED tblSupplierPayment
       ELSE /\ tblSupplierPayment' = SetPaymentStatus(tblSupplierPayment, payment_id, status)
            /\ Say(s, "Payment status updated.")

(* ------------------------- one operator, one console ------------------ *)
\* Reference Store handlers
RefOps(s) ==
    \/ \E f \in FleetIDs, o \in OwnershipInputs : add_fleet(s, f, o)
    \/ \E f \in FleetIDs, o \in OwnershipInputs : update_fleet(s, f, o)
    \/ add_driver(s)
    \/ add_customer(s)
    \/ add_supplier(s)

HireOps(s, customers, suppliers, rates, quantities, statuses) ==
    \/ \E f \in FleetIDs, d \in DriverTyped, c \in customers, su \in suppliers,
          t \in HireTypeInputs, r \in rates, q \in quantities :
          add_hire(s, f, d, c, su, t, r, q)
    \/ \E h \in HireIdInputs, st \in statuses : update_hire_status(s, h, st)

InvoiceOps(s, statuses) ==
    \/ \E h \in HireIdInputs : create_invoice_from_hire(s, h)
    \/ \E i \in InvoiceIdInputs, st \in statuses :
          update_invoice_status(s, i, st)

PaymentOps(s, statuses) ==
    \/ \E h \in HireIdInputs, a \in Amounts : add_supplier_payment(s, h, a)
    \/ \E p \in PaymentIdInputs, st \in statuses :
          update_supplier_payment_status(s, p, st)

\* Hire Ledger over the Reference Store, from an empty fleet.db
Next ==
    \/ RefOps(MainSession)
    \/ HireOps(MainSession, {"1"}, {"", "1", "2"}, Rates, {3}, HireStatusInputs)

Spec == Init /\ [][Next]_vars

\* fleet.db as earlier runs leave it: master records, and the hires given
Masters(ownerships, suppliers, hires) ==
    /\ tblFleet \in [FleetIDs -> ownerships]
    /\ tblDriver = InsertRow(EmptyTable)
    /\ tblCustomer = InsertRow(InsertRow(EmptyTable))
    /\ tblSupplier \in suppliers
    /\ tblHire \in hires
    /\ tblCustomerInvoice = <<>>
    /\ tblSupplierPayment = <<>>
    /\ out = [s \in Sessions |-> Blank]
    /\ sess = [s \in Sessions |-> Idle]

\* Invoice Sequencer over hires of an owned fleet
InitInvoice == Masters({"Owned"}, {EmptyTable}, {<<>>})

NextInvoice ==
    \/ HireOps(MainSession, CustomerTyped, {""}, Rates, {3}, {"Completed", "Cancelled"})
    \/ InvoiceOps(MainSession, InvoiceStatusInputs)

SpecInvoice == InitInvoice /\ [][NextInvoice]_vars

\* Settlement Tracker over hires with and without a supplier
InitSettle == Masters(OwnershipCheck, {EmptyTable, InsertRow(EmptyTable)}, {<<>>})

NextSettle ==
    \/ HireOps(MainSession, {"1"}, SupplierTyped, {2}, {3}, {"Completed"})
    \/ PaymentOps(MainSession, PaymentStatusInputs)

SpecSettle == InitSettle /\ [][NextSettle]_vars

\* every handler that writes a hire or makes a row from one
InitAmounts == Masters({"Rented-in"}, {InsertRow(EmptyTable)}, {<<>>})

NextAmounts ==
    \/ HireOps(MainSession, {"1"}, {"1"}, Rates, Quantities, {"Completed", "Cancelled"})
    \/ \E h \in HireIdInputs : create_invoice_from_hire(MainSession, h)
    \/ \E h \in HireIdInputs, a \in Amounts : add_supplier_payment(MainSession, h, a)

SpecAmounts == InitAmounts /\ [][NextAmounts]_vars

(* ----------------------- several operators, one fleet.db --------------- *)
\* create_invoice_from_hire, lines 608-618: the SELECT and the choice
CifSelect(s, hire_id) ==
    LET hires == SelectCompleted(tblHire)
        selected == SelectedHire(hires, hire_id)
    IN
    /\ sess[s].pc = "idle"
    /\ UNCHANGED tables
    /\ IF hires = {}
       THEN /\ Say(s, "No completed hires available.")
            /\ UNCHANGED sess
       ELSE IF selected = None
       THEN /\ Say(s, "Invalid Hire ID.")
            /\ UNCHANGED sess
       ELSE /\ sess' = [sess EXCEPT ![s] = [Idle EXCEPT !.pc = "generate",
                            !.hire_id = hire_id, !.selected = selected]]
            /\ Say(s, Blank)

\* line 619: generate_invoice_no() reads the last invoice
CifGenerate(s) ==
    /\ sess[s].pc = "generate"
    /\ sess' = [sess EXCEPT ![s].pc = "insert",
                            ![s].invoice_no = generate_invoice_no(tblCustomerInvoice)]
    /\ UNCHANGED <<tables, out>>

\* lines 621-626: the INSERT, committed or refused by UNIQUE(InvoiceNo)
CifInsert(s) ==
    /\ sess[s].pc = "insert"
    /\ UNCHANGED <<tblFleet, tblDriver, tblSupplier, tblCustomer, tblHire,
                   tblSupplierPayment>>
    /\ sess' = [sess EXCEPT ![s] = Idle]
    /\ IF ~InvoiceNoUnique(tblCustomerInvoice, sess[s].invoice_no)
       THEN /\ Say(s, IntegrityError)
            /\ UNCHANGED tblCustomerInvoice
       ELSE /\ Len(tblCustomerInvoice) < MaxInvoices
            /\ tblCustomerInvoice' = Append(tblCustomerInvoice,
                   NewInvoice(sess[s].invoice_no, sess[s].hire_id, sess[s].selected[1]))
            /\ Say(s, "Invoice created with number")

\* update_hire_status, lines 538-541: record_exists
UhsExists(s, hire_id) ==
    /\ sess[s].pc = "idle"
    /\ UNCHANGED tables
    /\ IF ~record_exists(DOMAIN tblHire, hire_id)
       THEN /\ Say(s, "Hire not found.")
            /\ UNCHANGED sess
       ELSE /\ sess' = [sess EXCEPT ![s] = [Idle EXCEPT !.pc = "update",
                            !.hire_id = hire_id]]
            /\ Say(s, Blank)

\* lines 542-544: the UPDATE
UhsUpdate(s, status) ==
    /\ sess[s].pc = "update"
    /\ tblHire' = SetHireStatus(tblHire, sess[s].hire_id, status)
    /\ sess' = [sess EXCEPT ![s] = Idle]
    /\ Say(s, "Hire status updated.")
    /\ UNCHANGED <<tblFleet, tblDriver, tblSupplier, tblCustomer,
                   tblCustomerInvoice, tblSupplierPayment>>

\* two hires of different customers, open or completed
SeedHire(customer_id, rate, status) ==
    [NewHire("F1", 1, customer_id, None, "Daily", rate, 3) EXCEPT !.Status = status]
SeedHires ==
    {<<SeedHire(1, 2, st1), SeedHire(2, 0, st2)>> : st1, st2 \in {"Open", "Completed"}}

InitConc == Masters({"Owned"}, {EmptyTable}, SeedHires)

NextConc ==
    \E s \in Sessions :
        \/ \E h \in 0..2 : CifSelect(s, h)
        \/ CifGenerate(s)
        \/ CifInsert(s)
        \/ \E h \in 0..2 : UhsExists(s, h)
        \/ \E st \in {"Completed", "Cancelled"} : UhsUpdate(s, st)

SpecConc == InitConc /\ [][NextConc]_vars

(* ------------------------------- claims -------------------------------- *)
NewHireRow == tblHire'[Len(tblHire')]
NewInvoiceRow == tblCustomerInvoice'[Len(tblCustomerInvoice')]
NewPaymentRow == tblSupplierPayment'[Len(tblSupplierPayment')]

C1_Number(n) ==
    CASE n = 1 -> <<"I", "N", "V", "-", "0", "0", "0", "1">>
      [] n = 2 -> <<"I", "N", "V", "-", "0", "0", "0", "2">>
      [] n = 3 -> <<"I", "N", "V", "-", "0", "0", "0", "3">>
      [] n = 4 -> <<"I", "N", "V", "-", "0", "0", "0", "4">>
      [] n = 5 -> <<"I", "N", "V", "-", "0", "0", "0", "5">>
      [] OTHER -> <<>>

\* C1: at one console, from a store with no invoice, the n-th invoice ever
\* created carries the number INV-000n: no repeats, no gaps, and attempts that
\* were refused in between have used up no number.
C1_InvoiceNumbersInSequence ==
    \A n \in DOMAIN tblCustomerInvoice :
        tblCustomerInvoice[n].InvoiceNo = C1_Number(n)

C1_ThreeInvoices ==
    /\ Len(tblCustomerInvoice) = 3
    /\ tblCustomerInvoice[3].InvoiceNo = <<"I", "N", "V", "-", "0", "0", "0", "3">>

C2_Refused == {"No completed hires available.", "Invalid Hire ID."}

\* C2: at one console, create_invoice_from_hire for a hire id that does not
\* exist or whose status is not Completed is refused and changes no table;
\* so every step that adds an invoice adds it for a hire that is Completed.
C2_OnlyCompletedHiresInvoiced ==
    [][/\ \/ UNCHANGED tables /\ out'[MainSession] \in C2_Refused
          \/ \A h \in HireIdInputs :
                ~(/\ h \notin DOMAIN tblHire \/ tblHire[h].Status # "Completed"
                  /\ create_invoice_from_hire(MainSession, h))
       /\ Len(tblCustomerInvoice') > Len(tblCustomerInvoice) =>
              /\ NewInvoiceRow.HireID \in DOMAIN tblHire
              /\ tblHire[NewInvoiceRow.HireID].Status = "Completed"]_vars

C2_RefusedForOpenHire ==
    /\ out[MainSession] = "No completed hires available."
    /\ tblHire # <<>>
    /\ tblHire[1].Status = "Open"
    /\ tblCustomerInvoice = <<>>

\* C7: an invoice is created Unpaid with the amount and the customer of its
\* hire, and in every later state its amount and customer still equal those
\* of the hire; update_invoice_status changes the payment status alone.
C7_InvoiceCopiesHire ==
    [][/\ \A i \in DOMAIN tblCustomerInvoice' :
              LET inv == tblCustomerInvoice'[i]
              IN  /\ inv.HireID \in DOMAIN tblHire'
                  /\ inv.Amount = tblHire'[inv.HireID].TotalAmount
                  /\ inv.CustomerID = tblHire'[inv.HireID].CustomerID
       /\ Len(tblCustomerInvoice') > Len(tblCustomerInvoice) =>
              NewInvoiceRow.PaymentStatus = "Unpaid"
       /\ \A i \in DOMAIN tblCustomerInvoice :
              /\ i \in DOMAIN tblCustomerInvoice'
              /\ [tblCustomerInvoice'[i] EXCEPT !.PaymentStatus = "Unpaid"]
                    = [tblCustomerInvoice[i] EXCEPT !.PaymentStatus = "Unpaid"]]_vars

C7_PaidInvoiceOfSecondCustomer ==
    /\ tblCustomerInvoice # <<>>
    /\ tblCustomerInvoice[1].PaymentStatus = "Paid"
    /\ tblCustomerInvoice[1].CustomerID = 2
    /\ tblCustomerInvoice[1].Amount = 6
    /\ tblHire[tblCustomerInvoice[1].HireID].CustomerID = 2

C3_Refused == {"No records found.", "Invalid choice.", "ID does not exist."}

\* C3: add_hire for a fleet that is Rented-in, with no supplier chosen or with
\* a supplier id that is not in the supplier table (the empty table included),
\* is refused and changes no table; so a hire added for a fleet that is
\* Rented-in carries the id of a supplier that exists.
C3_RentedInNeedsSupplier ==
    [][/\ \/ UNCHANGED tables /\ out'[MainSession] \in C3_Refused
          \/ \A f \in FleetIDs, d \in DriverTyped, c \in CustomerTyped,
                su \in SupplierTyped, t \in HireTypeInputs, r \in Rates,
                q \in Quantities :
                ~(/\ tblFleet[f] = "Rented-in"
                  /\ ~IsInt(su) \/ IntOf[su] \notin tblSupplier.rows
                  /\ add_hire(MainSession, f, d, c, su, t, r, q))
       /\ (/\ Len(tblHire') > Len(tblHire)
           /\ tblFleet[NewHireRow.FleetID] = "Rented-in") =>
              /\ NewHireRow.SupplierID # None
              /\ NewHireRow.SupplierID[1] \in tblSupplier.rows]_vars

C3_RefusedWithoutSupplier ==
    /\ out[MainSession] = "No records found."
    /\ tblFleet["F1"] = "Rented-in"
    /\ tblDriver.rows # {}
    /\ tblCustomer.rows # {}
    /\ tblSupplier.rows = {}
    /\ tblHire = <<>>

C4_Refused == {"Hire not found.", "This hire has no supplier."}

\* C4: add_supplier_payment for a hire id that does not exist, or for a hire
\* whose supplier is NULL, is refused and changes no table.
C4_PaymentNeedsHireWithSupplier ==
    [][\/ UNCHANGED tables /\ out'[MainSession] \in C4_Refused
       \/ \A h \in HireIdInputs, a \in Amounts :
             ~(/\ h \notin DOMAIN tblHire \/ tblHire[h].SupplierID = None
               /\ add_supplier_payment(MainSession, h, a))]_vars

C4_RefusedForHireWithoutSupplier ==
    /\ out[MainSession] = "This hire has no supplier."
    /\ tblHire # <<>>
    /\ tblHire[1].SupplierID = None
    /\ tblSupplierPayment = <<>>

\* C5: every supplier payment refers to a hire that exists and has a supplier,
\* and carries that hire's supplier; a payment is created Pending.
C5_PaymentFollowsHireSupplier ==
    [][/\ \A i \in DOMAIN tblSupplierPayment' :
              LET pay == tblSupplierPayment'[i]
              IN  /\ pay.HireID \in DOMAIN tblHire'
                  /\ tblHire'[pay.HireID].SupplierID # None
                  /\ pay.SupplierID = tblHire'[pay.HireID].SupplierID
       /\ Len(tblSupplierPayment') > Len(tblSupplierPayment) =>
              NewPaymentRow.PaymentStatus = "Pending"]_vars

C5_PaidPaymentOfSupplier ==
    /\ tblSupplierPayment # <<>>
    /\ tblSupplierPayment[1].SupplierID = Some(1)
    /\ tblHire[tblSupplierPayment[1].HireID].SupplierID = Some(1)
    /\ tblSupplierPayment[1].PaymentStatus = "Paid"

\* C6: a hire is created Open with total = rate * quantity of the rate and
\* quantity entered, no later step changes the rate, quantity or total of a
\* hire, and total = rate * quantity in every state.
C6_TotalIsRateTimesQuantity ==
    [][/\ \A f \in FleetIDs, d \in DriverTyped, c \in CustomerTyped,
             su \in SupplierTyped, t \in HireTypeInputs, r \in Rates,
             q \in Quantities :
             (/\ Len(tblHire') > Len(tblHire)
              /\ add_hire(MainSession, f, d, c, su, t, r, q)) =>
                 /\ NewHireRow.Status = "Open"
                 /\ NewHireRow.Rate = r
                 /\ NewHireRow.Quantity = q
                 /\ NewHireRow.TotalAmount = r * q
       /\ \A i \in DOMAIN tblHire :
             /\ i \in DOMAIN tblHire'
             /\ [tblHire'[i] EXCEPT !.Status = "Open"]
                   = [tblHire[i] EXCEPT !.Status = "Open"]
       /\ \A i \in DOMAIN tblHire' :
             tblHire'[i].TotalAmount = tblHire'[i].Rate * tblHire'[i].Quantity]_vars

C6_InvoicedAndPaidHire ==
    /\ tblHire # <<>>
    /\ tblHire[1].Rate = 2
    /\ tblHire[1].Quantity = 3
    /\ tblHire[1].TotalAmount = 6
    /\ tblHire[1].Status = "Completed"
    /\ tblCustomerInvoice # <<>>
    /\ tblSupplierPayment # <<>>

C8_Collides(s) ==
    \E i \in DOMAIN tblCustomerInvoice :
        /\ tblCustomerInvoice[i].InvoiceNo = sess[s].invoice_no
        /\ tblCustomerInvoice[i].HireID # sess[s].hire_id

\* C8: two consoles run create_invoice_from_hire for two different Completed
\* hires with their steps interleaved: both calls end with their invoice
\* created, under two different numbers; a call whose number was taken by the
\* other call in the meantime gets another one instead of failing.
C8_ConcurrentCallsBothSucceed ==
    [][\A s \in Sessions :
          (/\ CifInsert(s)
           /\ tblHire[sess[s].hire_id].Status = "Completed"
           /\ C8_Collides(s)) =>
              /\ out'[s] = "Invoice created with number"
              /\ Len(tblCustomerInvoice') = Len(tblCustomerInvoice) + 1
              /\ InvoiceNoUnique(tblCustomerInvoice, NewInvoiceRow.InvoiceNo)]_vars

\* C9: no invoice is inserted for a hire whose status, at the moment of the
\* INSERT, is not Completed: a hire that another console moved out of
\* Completed after this console read the completed hires is not invoiced.
C9_InsertSeesCompletedHire ==
    [][\A s \in Sessions :
          (/\ CifInsert(s)
           /\ Len(tblCustomerInvoice') > Len(tblCustomerInvoice)) =>
              tblHire[sess[s].hire_id].Status = "Completed"]_vars

\* C10: however the steps of the consoles interleave, no two invoices carry
\* the same number: an INSERT of a number that is taken is refused and leaves
\* the invoice table as it was.
C10_InvoiceNumbersUnique ==
    [][/\ \A i, j \in DOMAIN tblCustomerInvoice' :
              i # j => tblCustomerInvoice'[i].InvoiceNo # tblCustomerInvoice'[j].InvoiceNo
       /\ \A s \in Sessions :
              (/\ CifInsert(s)
               /\ \E i \in DOMAIN tblCustomerInvoice :
                     tblCustomerInvoice[i].InvoiceNo = sess[s].invoice_no) =>
                  /\ UNCHANGED tblCustomerInvoice
                  /\ out'[s] = IntegrityError]_vars

C10_CollidingInsertRefused ==
    \E s \in Sessions :
        /\ out[s] = IntegrityError
        /\ sess[s].pc = "idle"
        /\ Len(tblCustomerInvoice) = 1

\* C11: add_hire for a fleet that is Owned, with a supplier id typed that is
\* not in the supplier table, persists no hire; so a hire added with a
\* supplier carries the id of a supplier that exists when it is created.
C11_OwnedSupplierMustExist ==
    [][/\ \/ UNCHANGED tables
          \/ \A f \in FleetIDs, d \in DriverTyped, c \in {"1"},
                su \in SupplierTyped, t \in HireTypeInputs :
                ~(/\ tblFleet[f] = "Owned"
                  /\ IsInt(su) /\ IntOf[su] \notin tblSupplier.rows
                  /\ add_hire(MainSession, f, d, c, su, t, 2, 3))
       /\ (/\ Len(tblHire') > Len(tblHire)
           /\ NewHireRow.SupplierID # None) =>
              NewHireRow.SupplierID[1] \in tblSupplier.rows]_vars

\* C12: the status of every hire is one of Open, Completed, Cancelled,
\* update_hire_status taking no other target status.
C12_HireStatusInDomain ==
    \A i \in DOMAIN tblHire : tblHire[i].Status \in {"Open", "Completed", "Cancelled"}

\* C13: each hire is referenced by at most one customer invoice.
C13_OneInvoicePerHire ==
    \A i, j \in DOMAIN tblCustomerInvoice :
        i # j => tblCustomerInvoice[i].HireID # tblCustomerInvoice[j].HireID

\* C14: every hire has a rate above zero and a quantity of at least one, and
\* so a total above zero, as has every invoice made from it.
C14_HiresHavePositiveRateAndQuantity ==
    /\ \A i \in DOMAIN tblHire :
          /\ tblHire[i].Rate > 0
          /\ tblHire[i].Quantity >= 1
          /\ tblHire[i].TotalAmount > 0
    /\ \A i \in DOMAIN tblCustomerInvoice : tblCustomerInvoice[i].Amount > 0

=============================================================================
